---- MODULE Spec2Model ----
(***************************************************************************)
(* Model of peer_stats (src/main.go): the pipeline                         *)
(*   NewPeersDB -> ApproxAge -> ClosestBitnodeTS/BinSearch ->              *)
(*   ComputeStats/AddToAgeBucket/OldestIP -> WriteOutput.                  *)
(*                                                                         *)
(* uint32 values are kept at their full width.  TLC's integers are 32-bit  *)
(* signed, so a uint32 is the pair <<hi, lo>> of its two 16-bit halves and *)
(* the arithmetic below is carried out half by half (mod 2^32).            *)
(* Go's int is taken to be 64 bits wide (amd64/arm64 build), so            *)
(* int(uint32) keeps the value and is never negative.                      *)
(* Strings are sequences of one-character strings, so that slicing and     *)
(* parsing are computed as the code computes them.                         *)
(***************************************************************************)
EXTENDS Integers, Sequences, FiniteSets, TLC

VARIABLES
    pc,                 \* position of the run
    peersFile,          \* input: peers.dat, as what NewPeersDB makes of it
    tsFile,             \* input: lines of timestamps.txt
    bitnodeFile,        \* input: lines of the selected bitnode file
    peersDb, err,       \* main: decoded database and decode error
    approxAge,          \* main / parameter: reference timestamp
    bitnodeTS,          \* main: closest bitnode timestamp
    newResult, oldResult, \* main: results handed to WriteOutput
    output,             \* WriteOutput: rows written to the two stats files
    tsArray, elem, low, high, mid, closest, \* ClosestBitnodeTS / BinSearch frame
    accessed,           \* indices of tsArray read so far (observation)
    newTableIPs, triedTableIPs, \* ComputeStats parameters
    newResults, triedResults,   \* ComputeStats: results under construction
    newSeenHashMap, triedSeenHashMap,
    i,                  \* ComputeStats: loop index
    newReachableIPs, triedReachableIPs,
    totalIPCount,       \* ComputeStats: lines scanned
    ageBucket, ipTimestamp      \* AddToAgeBucket called on its own

inVars    == <<peersFile, tsFile, bitnodeFile>>
mainVars  == <<peersDb, err, bitnodeTS, newResult, oldResult, output>>
locVars   == <<tsArray, elem, low, high, mid, closest, accessed>>
statVars  == <<newTableIPs, triedTableIPs, newResults, triedResults,
               newSeenHashMap, triedSeenHashMap, i,
               newReachableIPs, triedReachableIPs, totalIPCount>>
buckVars  == <<ageBucket, ipTimestamp>>
vars      == <<pc, approxAge, inVars, mainVars, locVars, statVars, buckVars>>

-----------------------------------------------------------------------------
(* uint32 arithmetic *)

\* 2^16: one half of a uint32
Half == 256 * 256

\* the uint32 with value n, for 0 <= n < 2^31
ToU32(n) == <<n \div Half, n % Half>>

MaxUint32 == <<Half - 1, Half - 1>>

\* a - b on uint32: wraps modulo 2^32
Sub32(a, b) ==
    LET lo     == a[2] - b[2]
        borrow == IF lo < 0 THEN 1 ELSE 0
        hi     == a[1] - b[1] - borrow
    IN  <<hi % Half, lo % Half>>

\* a < b on uint32
Lt32(a, b) == a[1] < b[1] \/ (a[1] = b[1] /\ a[2] < b[2])

Le32(a, b) == a = b \/ Lt32(a, b)

\* |a - b| as a natural number below 2^32 (no wrap), for stating properties
Dist(a, b) == IF Lt32(a, b) THEN Sub32(b, a) ELSE Sub32(a, b)

SeqRange(s) == {s[k] : k \in 1..Len(s)}

\* sequences over S of length at most n
SeqsUpTo(S, n) == UNION {[1..k -> S] : k \in 0..n}

\* Go slice indexing is 0-based
At(arr, idx) == arr[idx + 1]

InRange(arr, idx) == 0 <= idx /\ idx < Len(arr)

-----------------------------------------------------------------------------
(* strconv.Atoi followed by uint32(): timestamps.txt lines *)

Digits == <<"0", "1", "2", "3", "4", "5", "6", "7", "8", "9">>

IsDigit(c) == \E d \in 1..10 : Digits[d] = c

DigitVal(c) == (CHOOSE d \in 1..10 : Digits[d] = c) - 1

\* value of a string of decimal digits
RECURSIVE ParseDigits(_)
ParseDigits(s) ==
    IF s = <<>> THEN 0
    ELSE ParseDigits(SubSeq(s, 1, Len(s) - 1)) * 10 + DigitVal(s[Len(s)])

AllDigits(s) == s # <<>> /\ \A k \in 1..Len(s) : IsDigit(s[k])

\* tsInt, _ := strconv.Atoi(line); uint32(tsInt).  A line that does not parse
\* gives 0 (the error is dropped); a negative number wraps.
AtoiU32(line) ==
    IF AllDigits(line) THEN ToU32(ParseDigits(line))
    ELSE IF Len(line) >= 2 /\ line[1] = "-" /\ AllDigits(Tail(line))
         THEN Sub32(ToU32(0), ToU32(ParseDigits(Tail(line))))
    ELSE IF Len(line) >= 2 /\ line[1] = "+" /\ AllDigits(Tail(line))
         THEN ToU32(ParseDigits(Tail(line)))
    ELSE ToU32(0)

\* the scanner loop of ClosestBitnodeTS
LoadTimestamps(file) == [k \in 1..Len(file) |-> AtoiU32(file[k])]

-----------------------------------------------------------------------------
(* ClosestBitnodeTS and BinSearch *)

\* elem-tsArray[low] < tsArray[high]-elem, on uint32
CloserIsLow_Le(e, lowVal, highVal) == Le32(Sub32(e, lowVal), Sub32(highVal, e))

CloserIsLow(e, lowVal, highVal) == Lt32(Sub32(e, lowVal), Sub32(highVal, e))

Mid(lo, hi) == (hi + lo) \div 2

\* ClosestBitnodeTS: load the file, then call BinSearch(0, len(tsArray), approxAge, tsArray)
ClosestBitnodeTS ==
    /\ pc = "ClosestBitnodeTS"
    /\ tsArray' = LoadTimestamps(tsFile)
    /\ elem' = approxAge
    /\ low' = 0
    /\ high' = Len(LoadTimestamps(tsFile))
    /\ pc' = "BinSearch"
    /\ UNCHANGED <<mid, closest, accessed>>
    /\ UNCHANGED <<approxAge, inVars, mainVars, statVars, buckVars>>

\* tsArray[mid] is out of range: runtime panic
BinSearchPanicMid ==
    /\ pc = "BinSearch"
    /\ ~InRange(tsArray, Mid(low, high))
    /\ mid' = Mid(low, high)
    /\ accessed' = accessed \cup {Mid(low, high)}
    /\ pc' = "panic"
    /\ UNCHANGED <<tsArray, elem, low, high, closest>>
    /\ UNCHANGED <<approxAge, inVars, mainVars, statVars, buckVars>>

\* tsArray[mid] == elem: found
BinSearchFound ==
    /\ pc = "BinSearch"
    /\ InRange(tsArray, Mid(low, high))
    /\ At(tsArray, Mid(low, high)) = elem
    /\ mid' = Mid(low, high)
    /\ accessed' = accessed \cup {Mid(low, high)}
    /\ closest' = elem
    /\ pc' = "BinSearchReturn"
    /\ UNCHANGED <<tsArray, elem, low, high>>
    /\ UNCHANGED <<approxAge, inVars, mainVars, statVars, buckVars>>

\* mid == low, and tsArray[high] is out of range: runtime panic
BinSearchPanicHigh ==
    /\ pc = "BinSearch"
    /\ InRange(tsArray, Mid(low, high))
    /\ At(tsArray, Mid(low, high)) # elem
    /\ Mid(low, high) = low
    /\ ~InRange(tsArray, high)
    /\ mid' = Mid(low, high)
    /\ accessed' = accessed \cup {Mid(low, high), low, high}
    /\ pc' = "panic"
    /\ UNCHANGED <<tsArray, elem, low, high, closest>>
    /\ UNCHANGED <<approxAge, inVars, mainVars, statVars, buckVars>>

\* mid == low: return the closer of tsArray[low] and tsArray[high]
BinSearchEnd ==
    /\ pc = "BinSearch"
    /\ InRange(tsArray, Mid(low, high))
    /\ At(tsArray, Mid(low, high)) # elem
    /\ Mid(low, high) = low
    /\ InRange(tsArray, high)
    /\ mid' = Mid(low, high)
    /\ accessed' = accessed \cup {Mid(low, high), low, high}
    /\ closest' = IF CloserIsLow(elem, At(tsArray, low), At(tsArray, high))
                  THEN At(tsArray, low)
                  ELSE At(tsArray, high)
    /\ pc' = "BinSearchReturn"
    /\ UNCHANGED <<tsArray, elem, low, high>>
    /\ UNCHANGED <<approxAge, inVars, mainVars, statVars, buckVars>>

\* elem < tsArray[mid]: BinSearch(low, mid, elem, tsArray)
BinSearchLeft ==
    /\ pc = "BinSearch"
    /\ InRange(tsArray, Mid(low, high))
    /\ At(tsArray, Mid(low, high)) # elem
    /\ Mid(low, high) # low
    /\ Lt32(elem, At(tsArray, Mid(low, high)))
    /\ mid' = Mid(low, high)
    /\ accessed' = accessed \cup {Mid(low, high)}
    /\ high' = Mid(low, high)
    /\ UNCHANGED <<pc, tsArray, elem, low, closest>>
    /\ UNCHANGED <<approxAge, inVars, mainVars, statVars, buckVars>>

\* otherwise: BinSearch(mid, high, elem, tsArray)
BinSearchRight ==
    /\ pc = "BinSearch"
    /\ InRange(tsArray, Mid(low, high))
    /\ At(tsArray, Mid(low, high)) # elem
    /\ Mid(low, high) # low
    /\ ~Lt32(elem, At(tsArray, Mid(low, high)))
    /\ mid' = Mid(low, high)
    /\ accessed' = accessed \cup {Mid(low, high)}
    /\ low' = Mid(low, high)
    /\ UNCHANGED <<pc, tsArray, elem, high, closest>>
    /\ UNCHANGED <<approxAge, inVars, mainVars, statVars, buckVars>>

BinSearch ==
    \/ BinSearchPanicMid
    \/ BinSearchFound
    \/ BinSearchPanicHigh
    \/ BinSearchEnd
    \/ BinSearchLeft
    \/ BinSearchRight

-----------------------------------------------------------------------------
(* records of the decoded database *)

\* PeerAddress.String(): "host:port"
PeerAddressString(pa) == pa.host \o <<":">> \o pa.port

CAddrInfo(host, port, time) ==
    [Address |-> [PeerAddress |-> [host |-> host, port |-> port], Time |-> time]]

\* float64 division of two non-negative integers: a quotient, +Inf or NaN
FloatDiv(a, b) ==
    IF b = 0
    THEN IF a = 0 THEN [kind |-> "NaN", num |-> 0, den |-> 0]
                  ELSE [kind |-> "Inf", num |-> a, den |-> 0]
    ELSE [kind |-> "num", num |-> a, den |-> b]

FloatZero == [kind |-> "num", num |-> 0, den |-> 1]

CreateResult ==
    [NumberOfReachableIPs |-> 0,
     TotalIPs             |-> 0,
     Percentage           |-> FloatZero,
     OldestIPAge          |-> ToU32(0),
     Age |-> [LessThanOne |-> 0, OneToFive |-> 0, FiveToTen |-> 0,
              TenToThirty |-> 0, GreaterThanThirty |-> 0]]

-----------------------------------------------------------------------------
(* AddToAgeBucket *)

ONE_DAY == 86400
FIVE_DAYS == 5 * ONE_DAY
TEN_DAYS == 2 * FIVE_DAYS
THIRTY_DAYS == 3 * TEN_DAYS

\* int(x) for a uint32 x, int being 64 bits: the value is kept, 0 <= int(x) < 2^32
IntOfU32(x) == x

\* n <= c and n < c for an int n = int(uint32) and a constant 0 <= c < 2^31
IntLe(n, c) == Le32(n, ToU32(c))
IntLt(n, c) == Lt32(n, ToU32(c))

Incr(bkt, field) == [bkt EXCEPT ![field] = @ + 1]

\* the same with the first test written ipAge < ONE_DAY
AddToAgeBucket_StrictFirst(bkt, ipTs, refTs) ==
    LET ipAge == IntOfU32(Sub32(refTs, ipTs))
    IN  IF IntLt(ipAge, ONE_DAY) THEN Incr(bkt, "LessThanOne")
        ELSE IF IntLt(ipAge, FIVE_DAYS) THEN Incr(bkt, "OneToFive")
        ELSE IF IntLt(ipAge, TEN_DAYS) THEN Incr(bkt, "FiveToTen")
        ELSE IF IntLt(ipAge, THIRTY_DAYS) THEN Incr(bkt, "TenToThirty")
        ELSE Incr(bkt, "GreaterThanThirty")

\* the same without the final else: an age of thirty days or more is not counted
AddToAgeBucket_NoElse(bkt, ipTs, refTs) ==
    LET ipAge == IntOfU32(Sub32(refTs, ipTs))
    IN  IF IntLe(ipAge, ONE_DAY) THEN Incr(bkt, "LessThanOne")
        ELSE IF IntLt(ipAge, FIVE_DAYS) THEN Incr(bkt, "OneToFive")
        ELSE IF IntLt(ipAge, TEN_DAYS) THEN Incr(bkt, "FiveToTen")
        ELSE IF IntLt(ipAge, THIRTY_DAYS) THEN Incr(bkt, "TenToThirty")
        ELSE bkt

\* ipAge := int(approxAge - ipTimestamp), then the if / else-if chain
AddToAgeBucket(bkt, ipTs, refTs) ==
    LET ipAge == IntOfU32(Sub32(refTs, ipTs))
    IN  IF IntLe(ipAge, ONE_DAY) THEN Incr(bkt, "LessThanOne")
        ELSE IF IntLt(ipAge, FIVE_DAYS) THEN Incr(bkt, "OneToFive")
        ELSE IF IntLt(ipAge, TEN_DAYS) THEN Incr(bkt, "FiveToTen")
        ELSE IF IntLt(ipAge, THIRTY_DAYS) THEN Incr(bkt, "TenToThirty")
        ELSE Incr(bkt, "GreaterThanThirty")

\* AddToAgeBucket called on its own, with any two timestamps
CallAddToAgeBucket ==
    /\ pc = "AddToAgeBucket"
    /\ ageBucket' = AddToAgeBucket(ageBucket, ipTimestamp, approxAge)
    /\ pc' = "AddToAgeBucketReturn"
    /\ UNCHANGED <<ipTimestamp, approxAge, inVars, mainVars, locVars, statVars>>

-----------------------------------------------------------------------------
(* OldestIP and ApproxAge *)

OldestInit == 2000000000

\* the loop of OldestIP over table[0..n-1]
RECURSIVE OldestUpTo(_, _)
OldestUpTo(table, n) ==
    IF n = 0 THEN ToU32(OldestInit)
    ELSE LET prev == OldestUpTo(table, n - 1)
         IN  IF Lt32(table[n].Address.Time, prev)
             THEN table[n].Address.Time ELSE prev

OldestIP(table) == OldestUpTo(table, Len(table))

\* one loop of ApproxAge: table[0..n-1] folded into the running maximum start
RECURSIVE MaxUpTo(_, _, _)
MaxUpTo(table, n, start) ==
    IF n = 0 THEN start
    ELSE LET prev == MaxUpTo(table, n - 1, start)
         IN  IF Lt32(prev, table[n].Address.Time)
             THEN table[n].Address.Time ELSE prev

\* the tried loop left out
ApproxAge_NewOnly(db) == MaxUpTo(db.NewAddrInfo, db.NNew, ToU32(0))

ApproxAge(db) ==
    MaxUpTo(db.TriedAddrInfo, db.NTried,
            MaxUpTo(db.NewAddrInfo, db.NNew, ToU32(0)))

-----------------------------------------------------------------------------
(* ComputeStats *)

\* ip[:len(ip)-5]: clip off the last five characters (":" and a 4-digit port).
\* An address string is never shorter than five characters, so the slice
\* expression is always in range.
ClipPort(ip) == SubSeq(ip, 1, Len(ip) - 5)

\* lines 54-59: fresh results and empty maps
ComputeStatsEnter ==
    /\ pc = "ComputeStats"
    /\ newResults' = CreateResult
    /\ triedResults' = CreateResult
    /\ newSeenHashMap' = {}
    /\ triedSeenHashMap' = {}
    /\ i' = 0
    /\ pc' = "NewLoop"
    /\ UNCHANGED <<newTableIPs, triedTableIPs, newReachableIPs,
                   triedReachableIPs, totalIPCount>>
    /\ UNCHANGED <<approxAge, inVars, mainVars, locVars, buckVars>>

\* lines 61-67: one iteration over newTableIPs
NewLoopIter ==
    /\ pc = "NewLoop"
    /\ i < Len(newTableIPs)
    /\ LET ip == PeerAddressString(At(newTableIPs, i).Address.PeerAddress)
       IN  newSeenHashMap' = newSeenHashMap \cup {ClipPort(ip)}
    /\ newResults' = [newResults EXCEPT !.Age =
           AddToAgeBucket(@, At(newTableIPs, i).Address.Time, approxAge)]
    /\ i' = i + 1
    /\ UNCHANGED <<pc, newTableIPs, triedTableIPs, triedResults, triedSeenHashMap,
                   newReachableIPs, triedReachableIPs, totalIPCount>>
    /\ UNCHANGED <<approxAge, inVars, mainVars, locVars, buckVars>>

NewLoopExit ==
    /\ pc = "NewLoop"
    /\ ~(i < Len(newTableIPs))
    /\ i' = 0
    /\ pc' = "TriedLoop"
    /\ UNCHANGED <<newTableIPs, triedTableIPs, newResults, triedResults,
                   newSeenHashMap, triedSeenHashMap,
                   newReachableIPs, triedReachableIPs, totalIPCount>>
    /\ UNCHANGED <<approxAge, inVars, mainVars, locVars, buckVars>>

\* lines 69-75: one iteration over triedTableIPs
TriedLoopIter ==
    /\ pc = "TriedLoop"
    /\ i < Len(triedTableIPs)
    /\ LET ip == PeerAddressString(At(triedTableIPs, i).Address.PeerAddress)
       IN  triedSeenHashMap' = triedSeenHashMap \cup {ClipPort(ip)}
    /\ triedResults' = [triedResults EXCEPT !.Age =
           AddToAgeBucket(@, At(triedTableIPs, i).Address.Time, approxAge)]
    /\ i' = i + 1
    /\ UNCHANGED <<pc, newTableIPs, triedTableIPs, newResults, newSeenHashMap,
                   newReachableIPs, triedReachableIPs, totalIPCount>>
    /\ UNCHANGED <<approxAge, inVars, mainVars, locVars, buckVars>>

\* lines 78-86: the tried loop ends; the bitnode file is opened
TriedLoopExit ==
    /\ pc = "TriedLoop"
    /\ ~(i < Len(triedTableIPs))
    /\ newReachableIPs' = <<>>
    /\ triedReachableIPs' = <<>>
    /\ totalIPCount' = 0
    /\ pc' = "Scan"
    /\ UNCHANGED <<newTableIPs, triedTableIPs, newResults, triedResults,
                   newSeenHashMap, triedSeenHashMap, i>>
    /\ UNCHANGED <<approxAge, inVars, mainVars, locVars, buckVars>>

\* lines 87-96: one line of the bitnode file
ScanLine ==
    /\ pc = "Scan"
    /\ totalIPCount < Len(bitnodeFile)
    /\ LET ip == At(bitnodeFile, totalIPCount)
       IN  /\ newReachableIPs' = IF ip \in newSeenHashMap
                                 THEN Append(newReachableIPs, ip)
                                 ELSE newReachableIPs
           /\ triedReachableIPs' = IF ip \in triedSeenHashMap
                                   THEN Append(triedReachableIPs, ip)
                                   ELSE triedReachableIPs
    /\ totalIPCount' = totalIPCount + 1
    /\ UNCHANGED <<pc, newTableIPs, triedTableIPs, newResults, triedResults,
                   newSeenHashMap, triedSeenHashMap, i>>
    /\ UNCHANGED <<approxAge, inVars, mainVars, locVars, buckVars>>

\* lines 98-111: the other stats, and return
ComputeStatsFinish ==
    /\ pc = "Scan"
    /\ ~(totalIPCount < Len(bitnodeFile))
    /\ newResults' = [newResults EXCEPT
           !.NumberOfReachableIPs = Len(newReachableIPs),
           !.TotalIPs = Len(newTableIPs),
           !.Percentage = FloatDiv(Len(newReachableIPs), Len(newTableIPs)),
           !.OldestIPAge = OldestIP(newTableIPs)]
    /\ triedResults' = [triedResults EXCEPT
           !.NumberOfReachableIPs = Len(triedReachableIPs),
           !.TotalIPs = Len(triedTableIPs),
           !.Percentage = FloatDiv(Len(triedReachableIPs), Len(triedTableIPs)),
           !.OldestIPAge = OldestIP(triedTableIPs)]
    /\ pc' = "ComputeStatsReturn"
    /\ UNCHANGED <<newTableIPs, triedTableIPs, newSeenHashMap, triedSeenHashMap, i,
                   newReachableIPs, triedReachableIPs, totalIPCount>>
    /\ UNCHANGED <<approxAge, inVars, mainVars, locVars, buckVars>>

ComputeStats ==
    \/ ComputeStatsEnter
    \/ NewLoopIter
    \/ NewLoopExit
    \/ TriedLoopIter
    \/ TriedLoopExit
    \/ ScanLine
    \/ ComputeStatsFinish

-----------------------------------------------------------------------------
(* WriteOutput *)

\* x / ONE_DAY for 0 <= x < 2^32; ONE_DAY = 128 * 675
DivDays(x) == ((x[1] * 512) + (x[2] \div 128)) \div 675

\* (int(approxAge) - int(result.OldestIPAge)) / ONE_DAY: Go's / truncates towards zero
DaysOldestIP(refTs, oldest) ==
    IF Lt32(refTs, oldest) THEN 0 - DivDays(Sub32(oldest, refTs))
    ELSE DivDays(Sub32(refTs, oldest))

\* strconv.FormatFloat(result.Percentage*100, 'f', 2, 64): "NaN", "+Inf", or
\* the value in hundredths of a percent, rounded to nearest
FormatPercent(p) ==
    IF p.kind = "NaN" THEN [text |-> "NaN", hundredths |-> 0]
    ELSE IF p.kind = "Inf" THEN [text |-> "+Inf", hundredths |-> 0]
    ELSE [text |-> "f", hundredths |-> ((p.num * 10000 * 2) + p.den) \div (2 * p.den)]

\* the row written for one result (the date is kept as the timestamp it renders)
Pretty(refTs, result) ==
    [approxAgeStr |-> refTs,
     daysOldestIP |-> DaysOldestIP(refTs, result.OldestIPAge),
     totalIPs     |-> result.TotalIPs,
     percent      |-> FormatPercent(result.Percentage),
     age_1        |-> result.Age.LessThanOne,
     age_1_5      |-> result.Age.OneToFive,
     age_5_10     |-> result.Age.FiveToTen,
     age_10_30    |-> result.Age.TenToThirty,
     age_30       |-> result.Age.GreaterThanThirty]

-----------------------------------------------------------------------------
(* main *)

ZeroPeersDB == [NNew |-> 0, NTried |-> 0, NewAddrInfo |-> <<>>, TriedAddrInfo |-> <<>>]

\* NewPeersDB: the decoded database, or an error and a zero-valued database
NewPeersDB(file) ==
    IF file.ok THEN [db |-> file.db, err |-> "nil"]
    ELSE [db |-> ZeroPeersDB, err |-> "DecodeError"]

\* lines 272-278: decode; an error is printed and the run goes on
MainDecode ==
    /\ pc = "main"
    /\ peersDb' = NewPeersDB(peersFile).db
    /\ err' = NewPeersDB(peersFile).err
    /\ pc' = "decoded"
    /\ UNCHANGED <<bitnodeTS, newResult, oldResult, output>>
    /\ UNCHANGED <<approxAge, inVars, locVars, statVars, buckVars>>

\* line 281
MainApproxAge ==
    /\ pc = "decoded"
    /\ approxAge' = ApproxAge(peersDb)
    /\ pc' = "ClosestBitnodeTS"
    /\ UNCHANGED <<inVars, mainVars, locVars, statVars, buckVars>>

\* lines 284-289: BinSearch has returned; ComputeStats is called
MainCallComputeStats ==
    /\ pc = "BinSearchReturn"
    /\ bitnodeTS' = closest
    /\ newTableIPs' = peersDb.NewAddrInfo
    /\ triedTableIPs' = peersDb.TriedAddrInfo
    /\ pc' = "ComputeStats"
    /\ UNCHANGED <<peersDb, err, newResult, oldResult, output>>
    /\ UNCHANGED <<newResults, triedResults, newSeenHashMap, triedSeenHashMap, i,
                   newReachableIPs, triedReachableIPs, totalIPCount>>
    /\ UNCHANGED <<approxAge, inVars, locVars, buckVars>>

\* lines 289-292: ComputeStats has returned; WriteOutput
MainWriteOutput ==
    /\ pc = "ComputeStatsReturn"
    /\ newResult' = newResults
    /\ oldResult' = triedResults
    /\ output' = [newFile   |-> <<Pretty(approxAge, newResults)>>,
                  triedFile |-> <<Pretty(approxAge, triedResults)>>]
    /\ pc' = "done"
    /\ UNCHANGED <<peersDb, err, bitnodeTS>>
    /\ UNCHANGED <<approxAge, inVars, locVars, statVars, buckVars>>

-----------------------------------------------------------------------------
(* inputs.  A file that cannot be opened scans as a file without lines,      *)
(* since the error of os.Open is dropped.                                  *)

HostA == <<"1", ".", "1">>
HostB == <<"2", ".", "2">>
Port4 == <<"8", "3", "3", "3">>
Port5 == <<"1", "8", "3", "3", "3">>

\* a snapshot date, 2020-09-13
BaseTime == 1600 * 1000000

DaysBefore(n) == ToU32(BaseTime - (n * ONE_DAY))

\* largest number of records in the two tables together
MaxRecs == 3
\* largest number of lines in the bitnode file
MaxLines == 2
\* largest number of lines in timestamps.txt
MaxTs == 3

StatsRecords ==
    { CAddrInfo(HostA, Port4, DaysBefore(0)),
      CAddrInfo(HostA, Port4, DaysBefore(2)),
      CAddrInfo(HostB, Port4, DaysBefore(7)),
      CAddrInfo(HostB, Port5, DaysBefore(20)),
      CAddrInfo(HostA, Port5, DaysBefore(40)) }

\* pairs of tables with at most n records together
TablePairs(R, n) ==
    { p \in SeqsUpTo(R, n) \X SeqsUpTo(R, n) : Len(p[1]) + Len(p[2]) <= n }

BitnodeFiles == SeqsUpTo({HostA, HostB}, MaxLines)

EmptyBuckets == CreateResult.Age

\* values of the variables a specification does not use
IdleMain ==
    /\ peersFile = [ok |-> FALSE, db |-> ZeroPeersDB]
    /\ peersDb = ZeroPeersDB
    /\ err = "nil"
    /\ bitnodeTS = ToU32(0)
    /\ newResult = CreateResult
    /\ oldResult = CreateResult
    /\ output = [newFile |-> <<>>, triedFile |-> <<>>]

IdleLocator ==
    /\ tsArray = <<>>
    /\ elem = ToU32(0)
    /\ low = 0
    /\ high = 0
    /\ mid = 0
    /\ closest = ToU32(0)
    /\ accessed = {}

IdleStats ==
    /\ newResults = CreateResult
    /\ triedResults = CreateResult
    /\ newSeenHashMap = {}
    /\ triedSeenHashMap = {}
    /\ i = 0
    /\ newReachableIPs = <<>>
    /\ triedReachableIPs = <<>>
    /\ totalIPCount = 0

IdleBucket ==
    /\ ageBucket = EmptyBuckets
    /\ ipTimestamp = ToU32(0)

-----------------------------------------------------------------------------
(* ComputeStats on its own: any tables, reference timestamp and bitnode file *)

InitStats ==
    /\ pc = "ComputeStats"
    /\ \E p \in TablePairs(StatsRecords, MaxRecs) :
           newTableIPs = p[1] /\ triedTableIPs = p[2]
    /\ approxAge \in {DaysBefore(0), DaysBefore(2)}
    /\ bitnodeFile \in BitnodeFiles
    /\ tsFile = <<>>
    /\ IdleMain /\ IdleLocator /\ IdleStats /\ IdleBucket

NextStats == ComputeStats

SpecStats == InitStats /\ [][NextStats]_vars

-----------------------------------------------------------------------------
(* ClosestBitnodeTS on its own: any timestamps file and any target *)

TsLines ==
    { <<"1", "0", "0">>, <<"2", "0", "0">>, <<"3", "0", "0">>, <<"x">>, <<"-", "1">> }

Targets ==
    { ToU32(0), ToU32(50), ToU32(100), ToU32(150), ToU32(250), ToU32(300),
      ToU32(350), MaxUint32 }

InitLocator ==
    /\ pc = "ClosestBitnodeTS"
    /\ tsFile \in SeqsUpTo(TsLines, MaxTs)
    /\ approxAge \in Targets
    /\ bitnodeFile = <<>>
    /\ newTableIPs = <<>>
    /\ triedTableIPs = <<>>
    /\ IdleMain /\ IdleLocator /\ IdleStats /\ IdleBucket

NextLocator == ClosestBitnodeTS \/ BinSearch

SpecLocator == InitLocator /\ [][NextLocator]_vars

-----------------------------------------------------------------------------
(* AddToAgeBucket on its own: any record timestamp and reference timestamp *)

BoundaryAges ==
    { 0, 1, ONE_DAY - 1, ONE_DAY, ONE_DAY + 1,
      FIVE_DAYS - 1, FIVE_DAYS, FIVE_DAYS + 1,
      TEN_DAYS - 1, TEN_DAYS, TEN_DAYS + 1,
      THIRTY_DAYS - 1, THIRTY_DAYS, THIRTY_DAYS + 1 }

BucketTimes ==
    {ToU32(0), MaxUint32} \cup {ToU32(BaseTime + a) : a \in BoundaryAges}

InitBucket ==
    /\ pc = "AddToAgeBucket"
    /\ ipTimestamp \in BucketTimes
    /\ approxAge \in BucketTimes
    /\ ageBucket = EmptyBuckets
    /\ tsFile = <<>>
    /\ bitnodeFile = <<>>
    /\ newTableIPs = <<>>
    /\ triedTableIPs = <<>>
    /\ IdleMain /\ IdleLocator /\ IdleStats

NextBucket == CallAddToAgeBucket

SpecBucket == InitBucket /\ [][NextBucket]_vars

-----------------------------------------------------------------------------
(* the whole run *)

\* largest number of records in a decoded peers.dat
MaxMainRecs == 2
\* largest number of lines in timestamps.txt, whole run
MaxMainTs == 2
\* largest number of lines in the bitnode file, whole run
MaxMainLines == 1

MainRecords ==
    { CAddrInfo(HostA, Port4, DaysBefore(0)),
      CAddrInfo(HostB, Port4, DaysBefore(2)),
      CAddrInfo(HostA, Port5, DaysBefore(7)) }

\* a well-formed peers.dat: the header counts are the table sizes
PeersDBOf(p) ==
    [NNew |-> Len(p[1]), NTried |-> Len(p[2]),
     NewAddrInfo |-> p[1], TriedAddrInfo |-> p[2]]

PeersFiles ==
    {[ok |-> FALSE, db |-> ZeroPeersDB]}
    \cup {[ok |-> TRUE, db |-> PeersDBOf(p)] : p \in TablePairs(MainRecords, MaxMainRecs)}

\* "1600000000" and "1599900000"
MainTsLines ==
    { <<"1", "6", "0", "0", "0", "0", "0", "0", "0", "0">>,
      <<"1", "5", "9", "9", "9", "0", "0", "0", "0", "0">> }

Init ==
    /\ pc = "main"
    /\ peersFile \in PeersFiles
    /\ tsFile \in SeqsUpTo(MainTsLines, MaxMainTs)
    /\ bitnodeFile \in SeqsUpTo({HostA, HostB}, MaxMainLines)
    /\ peersDb = ZeroPeersDB
    /\ err = "nil"
    /\ approxAge = ToU32(0)
    /\ bitnodeTS = ToU32(0)
    /\ newResult = CreateResult
    /\ oldResult = CreateResult
    /\ output = [newFile |-> <<>>, triedFile |-> <<>>]
    /\ newTableIPs = <<>>
    /\ triedTableIPs = <<>>
    /\ IdleLocator /\ IdleStats /\ IdleBucket

Next ==
    \/ MainDecode
    \/ MainApproxAge
    \/ ClosestBitnodeTS
    \/ BinSearch
    \/ MainCallComputeStats
    \/ ComputeStats
    \/ MainWriteOutput

Spec == Init /\ [][Next]_vars

-----------------------------------------------------------------------------
(* properties *)

Sorted(arr) == \A k \in 1..(Len(arr) - 1) : Le32(arr[k], arr[k + 1])

Loaded == pc \in {"BinSearch", "BinSearchReturn", "panic"}

\* C1: for a non-empty ascending sequence and any target, the search does not
\* fail, and the value it returns is a member of the sequence to which no
\* other member is strictly closer than it.
C1_ReturnsClosestMember ==
    (Loaded /\ tsArray # <<>> /\ Sorted(tsArray)) =>
        /\ pc # "panic"
        /\ pc = "BinSearchReturn" =>
              /\ closest \in SeqRange(tsArray)
              /\ \A m \in SeqRange(tsArray) :
                     ~Lt32(Dist(m, elem), Dist(closest, elem))

\* the search ended in a window of size one whose two boundary candidates are
\* equally distant from the target
TieAtEnd ==
    /\ pc = "BinSearchReturn"
    /\ mid = low
    /\ At(tsArray, mid) # elem
    /\ Dist(elem, At(tsArray, low)) = Dist(At(tsArray, high), elem)

U32Seq(ns) == [k \in 1..Len(ns) |-> ToU32(ns[k])]

\* C2 as stated: on a tie at the end of the search the lower candidate
\* tsArray[low] is returned; candidates [100, 200, 300] and target 250 give 200.
C2_TieReturnsLower ==
    /\ TieAtEnd => closest = At(tsArray, low)
    /\ (pc = "BinSearchReturn" /\ tsArray = U32Seq(<<100, 200, 300>>)
            /\ elem = ToU32(250)) => closest = ToU32(200)

\* C2 amended: on a tie at the end of the search the upper candidate
\* tsArray[high] is returned; candidates [100, 200, 300] and target 250 give 300.
C2_TieReturnsUpper ==
    /\ TieAtEnd => closest = At(tsArray, high)
    /\ (pc = "BinSearchReturn" /\ tsArray = U32Seq(<<100, 200, 300>>)
            /\ elem = ToU32(250)) => closest = ToU32(300)

C2_Witness ==
    /\ TieAtEnd
    /\ Sorted(tsArray)
    /\ Lt32(At(tsArray, low), elem)
    /\ Lt32(elem, At(tsArray, high))
    /\ closest = At(tsArray, high)

\* C3: every index of tsArray the search reads is within 0..len(tsArray)-1,
\* for a sequence of any length, and the search never ends in an
\* index-out-of-range failure.
C3_AccessesInRange ==
    /\ \A idx \in accessed : InRange(tsArray, idx)
    /\ pc # "panic"

\* C4: after a decode error none of ApproxAge, ClosestBitnodeTS, ComputeStats
\* and WriteOutput runs: the run stays where decoding left it, or is aborted.
C4_DecodeErrorAborts ==
    err # "nil" => pc \in {"decoded", "aborted"}

SumBuckets(b) ==
    b.LessThanOne + b.OneToFive + b.FiveToTen + b.TenToThirty + b.GreaterThanThirty

\* C5: the five counters of a table sum to the number of its records
\* processed so far, and to TotalIPs in the Result returned.
C5_BucketsSumToCount ==
    /\ pc = "NewLoop" => SumBuckets(newResults.Age) = i
    /\ pc = "TriedLoop" =>
          /\ SumBuckets(newResults.Age) = Len(newTableIPs)
          /\ SumBuckets(triedResults.Age) = i
    /\ pc \in {"Scan", "ComputeStatsReturn"} =>
          /\ SumBuckets(newResults.Age) = Len(newTableIPs)
          /\ SumBuckets(triedResults.Age) = Len(triedTableIPs)
    /\ pc = "ComputeStatsReturn" =>
          /\ SumBuckets(newResults.Age) = newResults.TotalIPs
          /\ SumBuckets(triedResults.Age) = triedResults.TotalIPs

C5_Witness ==
    /\ pc = "ComputeStatsReturn"
    /\ newResults.TotalIPs = 2
    /\ triedResults.TotalIPs = 1
    /\ newResults.Age.GreaterThanThirty = 1
    /\ newResults.Age.OneToFive = 1
    /\ triedResults.Age.FiveToTen = 1

\* the bucket the age ranges of the contract give, for an age of 0..2^32-1 seconds
BucketOfAge(age) ==
    CASE Le32(age, ToU32(86400)) -> "LessThanOne"
      [] Lt32(ToU32(86400), age) /\ Lt32(age, ToU32(5 * 86400)) -> "OneToFive"
      [] Le32(ToU32(5 * 86400), age) /\ Lt32(age, ToU32(10 * 86400)) -> "FiveToTen"
      [] Le32(ToU32(10 * 86400), age) /\ Lt32(age, ToU32(30 * 86400)) -> "TenToThirty"
      [] Le32(ToU32(30 * 86400), age) -> "GreaterThanThirty"

OnlyBucket(name) == [EmptyBuckets EXCEPT ![name] = 1]

\* C6: with reference >= record timestamp, the one counter incremented is the
\* one the ranges give for age = reference - timestamp; 86400 -> LessThanOne,
\* 86401 -> OneToFive, 5*86400 -> FiveToTen, 30*86400 -> GreaterThanThirty.
C6_BucketOfAge ==
    (pc = "AddToAgeBucketReturn" /\ Le32(ipTimestamp, approxAge)) =>
        LET age == Sub32(approxAge, ipTimestamp)
        IN  /\ ageBucket = OnlyBucket(BucketOfAge(age))
            /\ age = ToU32(86400) => ageBucket = OnlyBucket("LessThanOne")
            /\ age = ToU32(86401) => ageBucket = OnlyBucket("OneToFive")
            /\ age = ToU32(432000) => ageBucket = OnlyBucket("FiveToTen")
            /\ age = ToU32(2592000) => ageBucket = OnlyBucket("GreaterThanThirty")

C6_Witness ==
    /\ pc = "AddToAgeBucketReturn"
    /\ Lt32(ipTimestamp, approxAge)
    /\ Sub32(approxAge, ipTimestamp) = ToU32(86400)
    /\ ageBucket.LessThanOne = 1

\* C7: in the Result of each table, 0 <= NumberOfReachableIPs <= TotalIPs.
C7_ReachableAtMostTotal ==
    pc = "ComputeStatsReturn" =>
        /\ 0 <= newResults.NumberOfReachableIPs
        /\ newResults.NumberOfReachableIPs <= newResults.TotalIPs
        /\ 0 <= triedResults.NumberOfReachableIPs
        /\ triedResults.NumberOfReachableIPs <= triedResults.TotalIPs

AllRecords(db) == SeqRange(db.NewAddrInfo) \cup SeqRange(db.TriedAddrInfo)

AgeEstimated == pc \notin {"main", "decoded"}

\* C8: for a decoded database with at least one record, the approximate age
\* is the timestamp of some record and no record's timestamp exceeds it.
C8_ApproxAgeIsMaximum ==
    (AgeEstimated /\ err = "nil" /\ AllRecords(peersDb) # {}) =>
        /\ \E r \in AllRecords(peersDb) : r.Address.Time = approxAge
        /\ \A r \in AllRecords(peersDb) : Le32(r.Address.Time, approxAge)

C8_Witness ==
    /\ AgeEstimated
    /\ err = "nil"
    /\ peersDb.NNew = 1
    /\ peersDb.NTried = 1
    /\ approxAge = peersDb.TriedAddrInfo[1].Address.Time
    /\ Lt32(peersDb.NewAddrInfo[1].Address.Time, approxAge)

\* C9: a record whose timestamp is greater than the reference timestamp is
\* counted in LessThanOne.
C9_NewerRecordInMinimumBucket ==
    (pc = "AddToAgeBucketReturn" /\ Lt32(approxAge, ipTimestamp)) =>
        ageBucket = OnlyBucket("LessThanOne")

DivisionByZero(p) == p.kind \in {"NaN", "Inf"}

\* C10: after a successful decode, the Result of a table with zero records,
\* as handed to WriteOutput, does not carry the value of a division by zero
\* as its percentage.
C10_NoDivisionByZero ==
    (pc = "done" /\ err = "nil") =>
        /\ newResult.TotalIPs = 0 => ~DivisionByZero(newResult.Percentage)
        /\ oldResult.TotalIPs = 0 => ~DivisionByZero(oldResult.Percentage)

====
